---- MODULE Spec2Model ----
(***************************************************************************)
(* Model of the Ethiopia financial-inclusion dashboard:                    *)
(*   src/dashboard/utils.py  - the data access layer (loads and queries)   *)
(*   src/dashboard/app.py    - the Streamlit script, re-run per interaction*)
(*                                                                         *)
(* A pandas DataFrame is a record [cols, rows]: cols is the set of column  *)
(* names, rows a sequence of records that carry the index label (idx) and  *)
(* one field per column.  A nullable cell is a tuple: <<>> is the missing  *)
(* value (NaN / NaT / None), <<v>> a present number, <<"str", s>> a date   *)
(* still held as text and <<"ts", n>> a parsed timestamp (n = YYYYMMDD).   *)
(***************************************************************************)
EXTENDS Integers, Sequences, FiniteSets, TLC

VARIABLES
    df_main,      \* SpecUtils: the unified table handed to the query functions
    forecast_df,  \* SpecUtils: the forecast table handed to get_forecast_value
    call,         \* SpecUtils: the last query call, its arguments and its result
    disk,         \* the input files under data/raw and data/processed
    cache,        \* st.cache_data: per load function, None or Some(its result)
    execs,        \* log of the executions of the bodies of the load functions
    ui,           \* the last run of the script: widget values, what it drew,
                  \* and (at) how many file changes had happened by then
    changes       \* SpecSession: how many times a file was changed on disk

utilVars == <<df_main, forecast_df, call>>
appVars == <<disk, cache, execs, ui, changes>>
vars == <<df_main, forecast_df, call, disk, cache, execs, ui, changes>>

-----------------------------------------------------------------------------
(* Bounds of the input universe *)

MaxRows == 3
MaxFcRows == 2
MaxDiskChanges == 1

-----------------------------------------------------------------------------
(* Cells *)

NA == <<>>
Num(v) == <<v>>
Str(s) == <<"str", s>>
Ts(n) == <<"ts", n>>

notna(c) == c # NA

\* pd.to_datetime(..., format='mixed', errors='coerce') on one piece of text
ParseDate(s) ==
    CASE s = "2021-12-31" -> Ts(20211231)
      [] s = "2022-06-30" -> Ts(20220630)
      [] s = "2024"       -> Ts(20240101)
      [] OTHER            -> NA

\* pd.to_datetime on one cell: missing stays missing, a timestamp is kept,
\* text is parsed and coerced to missing when it is not a date
to_datetime(c) ==
    IF c = NA THEN NA
    ELSE IF c[1] = "ts" THEN c
    ELSE ParseDate(c[2])

\* Series.dt.year on one cell
dt_year(c) == IF c = NA THEN NA ELSE Num(c[2] \div 10000)

-----------------------------------------------------------------------------
(* DataFrames *)

\* pd.DataFrame()
EmptyDF == [cols |-> {}, rows |-> <<>>]

\* DataFrame.empty
empty(df) == df.cols = {} \/ df.rows = <<>>

\* boolean-mask selection df[mask]: the rows kept, in their original order
\* (mask is the boolean Series, one entry per row)
SelectRows(rows, mask) ==
    LET kept == SelectSeq([i \in DOMAIN rows |-> i], LAMBDA i : mask[i])
    IN  [k \in DOMAIN kept |-> rows[kept[k]]]

\* df[col] = values, one value per row (adds the column when it is new)
Assign(df, col, values) ==
    [cols |-> df.cols \cup {col},
     rows |-> [i \in DOMAIN df.rows |->
                 [c \in DOMAIN df.rows[i] \cup {col} |->
                     IF c = col THEN values[i] ELSE df.rows[i][c]]]]

\* df[col] as a Series of cells
Column(df, col) == [i \in DOMAIN df.rows |-> df.rows[i][col]]

\* read_csv / read_excel give the rows a RangeIndex
WithIndex(cols, contents) ==
    [cols |-> cols,
     rows |-> [i \in DOMAIN contents |->
                 [c \in DOMAIN contents[i] \cup {"idx"} |->
                     IF c = "idx" THEN i ELSE contents[i][c]]]]

Idx(rows) == {rows[i].idx : i \in DOMAIN rows}

\* the permutations of the positions of a sequence
Perms(rows) ==
    {q \in [DOMAIN rows -> DOMAIN rows] :
        \A i, j \in DOMAIN rows : i # j => q[i] # q[j]}

\* DataFrame.sort_values(col) with the default (unstable) quicksort, on a
\* column without missing values: every ascending arrangement of the rows
\* (keys holds the number each row is ordered by)
sort_values(rows, keys) ==
    {[i \in DOMAIN rows |-> rows[p[i]]] :
        p \in {q \in Perms(rows) :
                  \A i, j \in DOMAIN rows : i < j => keys[q[i]] <= keys[q[j]]}}

-----------------------------------------------------------------------------
(* Outcome of a call: a returned value, or the exception that escapes it *)

Ok(v) == [exc |-> "", val |-> v]
Raise(e) == [exc |-> e, val |-> <<>>]
raised(r) == r.exc # ""

\* None stands for Python's None (a table that was not loaded)
None == <<>>
Some(x) == <<x>>

-----------------------------------------------------------------------------
(* utils.py: the query functions *)

\* get_observations selecting record_type != 'event'
get_observations_not_event(df) ==
    IF empty(df) THEN Ok(EmptyDF)
    ELSE IF "record_type" \notin df.cols THEN Raise("KeyError")
    ELSE LET mask == [i \in DOMAIN df.rows |-> df.rows[i].record_type # "event"]
             obs == [cols |-> df.cols, rows |-> SelectRows(df.rows, mask)]
             year == [i \in DOMAIN obs.rows |-> dt_year(obs.rows[i].observation_date)]
         IN  IF "observation_date" \in obs.cols
             THEN Ok(Assign(obs, "year", year))
             ELSE Ok(obs)

get_observations(df) ==
    IF empty(df) THEN Ok(EmptyDF)
    ELSE IF "record_type" \notin df.cols THEN Raise("KeyError")
    ELSE LET mask == [i \in DOMAIN df.rows |-> df.rows[i].record_type = "observation"]
             obs == [cols |-> df.cols, rows |-> SelectRows(df.rows, mask)]
             year == [i \in DOMAIN obs.rows |-> dt_year(obs.rows[i].observation_date)]
         IN  IF "observation_date" \in obs.cols
             THEN Ok(Assign(obs, "year", year))
             ELSE Ok(obs)

\* the caller's table after get_observations: the function changes a .copy()
\* of the selection, so the table it was given is left as it was
get_observations_arg(df) == df

\* get_events choosing the date record by record instead of one column for
\* the whole table
get_events_per_record(df) ==
    IF empty(df) THEN Ok(EmptyDF)
    ELSE IF "record_type" \notin df.cols THEN Raise("KeyError")
    ELSE LET mask == [i \in DOMAIN df.rows |-> df.rows[i].record_type = "event"]
             events == [cols |-> df.cols, rows |-> SelectRows(df.rows, mask)]
             parsed == [i \in DOMAIN events.rows |->
                          IF notna(events.rows[i].event_date)
                          THEN to_datetime(events.rows[i].event_date)
                          ELSE to_datetime(events.rows[i].observation_date)]
         IN  Ok(Assign(events, "event_date_parsed", parsed))

get_events(df) ==
    IF empty(df) THEN Ok(EmptyDF)
    ELSE IF "record_type" \notin df.cols THEN Raise("KeyError")
    ELSE LET mask == [i \in DOMAIN df.rows |-> df.rows[i].record_type = "event"]
             events == [cols |-> df.cols, rows |-> SelectRows(df.rows, mask)]
             date_col ==
                 IF /\ "event_date" \in events.cols
                    /\ \E i \in DOMAIN events.rows : notna(events.rows[i].event_date)
                 THEN "event_date"
                 ELSE "observation_date"
             parsed == [i \in DOMAIN events.rows |->
                          to_datetime(events.rows[i][date_col])]
         IN  IF date_col \in events.cols
             THEN Ok(Assign(Assign(events, date_col, parsed),
                            "event_date_parsed", parsed))
             ELSE Ok(events)

\* the caller's table after get_events (again a .copy() is what is changed)
get_events_arg(df) == df

\* IndicatorRows with dropna(subset=['observation_date']) only
IndicatorRows_keep_missing_value(observations, indicator_code) ==
    LET rows == observations.rows
        mask == [i \in DOMAIN rows |->
                    /\ rows[i].indicator_code = indicator_code
                    /\ notna(rows[i].observation_date)]
    IN  SelectRows(rows, mask)

\* the rows get_indicator_series keeps, before it sorts them
IndicatorRows(observations, indicator_code) ==
    LET rows == observations.rows
        mask == [i \in DOMAIN rows |->
                    /\ rows[i].indicator_code = indicator_code
                    /\ notna(rows[i].observation_date)
                    /\ notna(rows[i].value_numeric)]
    IN  SelectRows(rows, mask)

\* the set of outcomes of get_indicator_series (rows with equal dates may come
\* out in either order)
get_indicator_series(observations, indicator_code) ==
    IF empty(observations) THEN {Ok(EmptyDF)}
    ELSE IF ~ ({"indicator_code", "observation_date", "value_numeric"}
                  \subseteq observations.cols)
         THEN {Raise("KeyError")}
    ELSE LET data == IndicatorRows(observations, indicator_code)
             date == [i \in DOMAIN data |-> data[i].observation_date[2]]
         IN  {Ok([cols |-> observations.cols, rows |-> s]) :
                s \in sort_values(data, date)}

\* iloc[0] where iloc[-1] is meant
iloc_last_as_first(rows, col) ==
    IF rows = <<>> THEN Raise("IndexError") ELSE Ok(rows[1][col])

\* series['value_numeric'].iloc[-1]
iloc_last(rows, col) ==
    IF rows = <<>> THEN Raise("IndexError") ELSE Ok(rows[Len(rows)][col])

\* result['forecast_value'].iloc[0]
iloc_first(rows, col) ==
    IF rows = <<>> THEN Raise("IndexError") ELSE Ok(rows[1][col])

\* the set of outcomes of get_latest_value
get_latest_value(observations, indicator_code) ==
    {IF raised(series) THEN series
     ELSE IF empty(series.val) THEN Ok(NA)
     ELSE iloc_last(series.val.rows, "value_numeric") :
        series \in get_indicator_series(observations, indicator_code)}

\* get_forecast_value whose mask leaves the scenario out
get_forecast_value_any_scenario(forecast, indicator, year, scenario) ==
    IF forecast = None THEN Ok(NA)
    ELSE IF empty(forecast[1]) THEN Ok(NA)
    ELSE LET rows == forecast[1].rows
             mask == [i \in DOMAIN rows |->
                         /\ rows[i].indicator_code = indicator
                         /\ rows[i].year = Num(year)]
             result == SelectRows(rows, mask)
         IN  IF result = <<>> THEN Ok(NA)
             ELSE Ok(result[1].forecast_value)

\* get_forecast_value(forecast_df, indicator, year, scenario); forecast is
\* None or Some(table)
get_forecast_value(forecast, indicator, year, scenario) ==
    IF forecast = None THEN Ok(NA)
    ELSE IF empty(forecast[1]) THEN Ok(NA)
    ELSE IF ~ ({"indicator_code", "year", "scenario"} \subseteq forecast[1].cols)
         THEN Raise("KeyError")
    ELSE LET rows == forecast[1].rows
             mask == [i \in DOMAIN rows |->
                         /\ rows[i].indicator_code = indicator
                         /\ rows[i].year = Num(year)
                         /\ rows[i].scenario = scenario]
             result == SelectRows(rows, mask)
         IN  IF result = <<>> THEN Ok(NA)
             ELSE iloc_first(result, "forecast_value")

-----------------------------------------------------------------------------
(* The tables the query functions are exercised on *)

SeqsUpTo(S, n) == UNION {[1..k -> S] : k \in 0..n}

UnifiedCols ==
    {"record_type", "indicator_code", "indicator", "observation_date",
     "value_numeric", "event_date", "category"}

Row(t, c, d, v, e, g) ==
    [record_type |-> t, indicator_code |-> c, indicator |-> c,
     observation_date |-> d, value_numeric |-> v, event_date |-> e, category |-> g]

\* rows of a loaded unified table: observation_date is already a timestamp
\* (or NaT), event_date is still text
LoadedRows ==
    {Row("observation", c, d, v, NA, NA) :
        c \in {"ACC_OWNERSHIP", "USG_DIGITAL_PAYMENT"},
        d \in {NA, Ts(20211231), Ts(20240101)},
        v \in {NA, Num(0), Num(46)}}
    \cup
    {Row("event", "EVT_TELEBIRR", d, NA, e, Str("product_launch")) :
        d \in {NA, Ts(20211231)},
        e \in {NA, Str("2022-06-30"), Str("TBD")}}
    \cup
    {Row("impact_link", "EVT_TELEBIRR", NA, NA, NA, NA)}

LoadedTables ==
    {EmptyDF} \cup {WithIndex(UnifiedCols, s) : s \in SeqsUpTo(LoadedRows, MaxRows)}

\* the indicator codes asked for; ACC_MM_ACCOUNT occurs in no row
QueryCodes == {"ACC_OWNERSHIP", "USG_DIGITAL_PAYMENT", "ACC_MM_ACCOUNT"}

LongCols == {"indicator_code", "year", "scenario", "forecast_value"}

LongRows ==
    [indicator_code : {"ACC_OWNERSHIP", "USG_DIGITAL_PAYMENT"},
     year : {Num(2026), Num(2027)},
     scenario : {"base", "optimistic"},
     forecast_value : {Num(40), Num(55)}]

ForecastTables ==
    {None, Some(EmptyDF)}
    \cup {Some(WithIndex(LongCols, s)) : s \in SeqsUpTo(LongRows, MaxFcRows)}

-----------------------------------------------------------------------------
(* The files the dashboard is run on *)

RawRow(t, c, d, v, e, g) ==
    [record_type |-> t, indicator_code |-> c, indicator |-> c,
     observation_date |-> d, value_numeric |-> v, event_date |-> e, category |-> g]

\* every indicator of the KPI cards, dated and undated events, an impact link
UnifiedFull ==
    <<RawRow("observation", "ACC_OWNERSHIP", Str("2024"), Num(49), NA, NA),
      RawRow("observation", "ACC_OWNERSHIP", Str("2021-12-31"), Num(46), NA, NA),
      RawRow("observation", "USG_DIGITAL_PAYMENT", Str("2022-06-30"), Num(0), NA, NA),
      RawRow("observation", "ACC_MM_ACCOUNT", Str("2024"), Num(9), NA, NA),
      RawRow("event", "EVT_TELEBIRR", NA, NA, Str("2022-06-30"), Str("product_launch")),
      RawRow("event", "EVT_NFIS", Str("2021-12-31"), NA, NA, Str("policy")),
      RawRow("impact_link", "EVT_TELEBIRR", NA, NA, NA, NA)>>

\* account ownership only, one date that is not a date, one event dated by
\* its observation_date
UnifiedAccess ==
    <<RawRow("observation", "ACC_OWNERSHIP", Str("2021-12-31"), Num(46), NA, NA),
      RawRow("observation", "ACC_OWNERSHIP", Str("TBD"), Num(35), NA, NA),
      RawRow("event", "EVT_NFIS", Str("2021-12-31"), NA, NA, Str("policy"))>>

\* no account ownership, no event
UnifiedUsage ==
    <<RawRow("observation", "USG_DIGITAL_PAYMENT", Str("2022-06-30"), Num(35), NA, NA),
      RawRow("impact_link", "EVT_TELEBIRR", NA, NA, NA, NA)>>

\* the Impact_sheet of the workbook
UnifiedLinks ==
    <<RawRow("impact_link", "EVT_TELEBIRR", NA, NA, NA, NA)>>

MissingFile == [st |-> "missing", cols |-> {}, rows |-> <<>>]
UnreadableFile == [st |-> "unreadable", cols |-> {}, rows |-> <<>>]
CsvFile(cols, rows) == [st |-> "ok", cols |-> cols, rows |-> rows]

\* The versions of each file, by name; disk holds the name of the version
\* that is on disk
EnrichedFiles ==
    [missing |-> MissingFile, unreadable |-> UnreadableFile,
     full |-> CsvFile(UnifiedCols, UnifiedFull),
     access |-> CsvFile(UnifiedCols, UnifiedAccess),
     usage |-> CsvFile(UnifiedCols, UnifiedUsage)]

NoSheets == [cols |-> {}, rows |-> <<>>]

Workbooks ==
    [missing |-> [st |-> "missing", main |-> NoSheets, impact_st |-> "ok",
                  impact |-> NoSheets],
     unreadable |-> [st |-> "unreadable", main |-> NoSheets, impact_st |-> "ok",
                     impact |-> NoSheets],
     access |-> [st |-> "ok", main |-> [cols |-> UnifiedCols, rows |-> UnifiedAccess],
                 impact_st |-> "ok",
                 impact |-> [cols |-> UnifiedCols, rows |-> UnifiedLinks]],
     no_impact |-> [st |-> "ok", main |-> [cols |-> UnifiedCols, rows |-> UnifiedFull],
                    impact_st |-> "unreadable", impact |-> NoSheets]]

\* (the columns of the feature table are kept in their order: the page takes
\* the first four event_effect columns)
FeatureFiles ==
    [missing |-> [st |-> "missing", cols |-> <<>>, rows |-> <<>>],
     unreadable |-> [st |-> "unreadable", cols |-> <<>>, rows |-> <<>>],
     full |-> CsvFile(<<<<"event_effect", "telebirr">>, <<"event_effect", "mpesa">>,
                        <<"other", "n_events">>>>,
                      <<[telebirr |-> 1, mpesa |-> 0, n_events |-> 1],
                        [telebirr |-> 1, mpesa |-> 2, n_events |-> 2]>>)]

MatrixFiles ==
    [missing |-> MissingFile, unreadable |-> UnreadableFile,
     full |-> CsvFile({"ACC_OWNERSHIP", "USG_DIGITAL_PAYMENT"},
                      <<[ACC_OWNERSHIP |-> 3, USG_DIGITAL_PAYMENT |-> 1]>>)]

Long(c, y, sc, v) ==
    [indicator_code |-> c, year |-> Num(y), scenario |-> sc, forecast_value |-> Num(v)]

LongFull ==
    <<Long("ACC_OWNERSHIP", 2027, "base", 55),
      Long("ACC_OWNERSHIP", 2026, "base", 52),
      Long("ACC_OWNERSHIP", 2027, "optimistic", 62),
      Long("ACC_OWNERSHIP", 2027, "pessimistic", 50),
      Long("USG_DIGITAL_PAYMENT", 2027, "base", 0)>>

LongX == <<Long("X", 2025, "base", 40), Long("X", 2026, "base", 45)>>

LongFiles ==
    [missing |-> MissingFile, unreadable |-> UnreadableFile,
     full |-> CsvFile(LongCols, LongFull),
     x |-> CsvFile(LongCols, LongX),
     header |-> CsvFile(LongCols, <<>>)]

Wide(c, y, lo, up) ==
    [indicator_code |-> c, year |-> Num(y), lower |-> Num(lo), upper |-> Num(up)]

WideFiles ==
    [missing |-> MissingFile, unreadable |-> UnreadableFile,
     full |-> CsvFile({"indicator_code", "year", "lower", "upper"},
                      <<Wide("ACC_OWNERSHIP", 2027, 50, 62),
                        Wide("ACC_OWNERSHIP", 2026, 48, 57)>>),
     no_bounds |-> CsvFile({"indicator_code", "year", "base"},
                           <<[indicator_code |-> "ACC_OWNERSHIP", year |-> Num(2027),
                              base |-> Num(55)]>>)]

Versions ==
    [enriched |-> EnrichedFiles, workbook |-> Workbooks, features |-> FeatureFiles,
     matrix |-> MatrixFiles, long |-> LongFiles, wide |-> WideFiles]

\* the files behind the names
Mount(d) == [f \in DOMAIN d |-> Versions[f][d[f]]]

DiskStates ==
    [enriched : DOMAIN EnrichedFiles, workbook : DOMAIN Workbooks,
     features : DOMAIN FeatureFiles, matrix : DOMAIN MatrixFiles,
     long : DOMAIN LongFiles, wide : DOMAIN WideFiles]

-----------------------------------------------------------------------------
(* utils.py: the load functions.  A CSV file is [st, cols, rows]: st is    *)
(* "missing", "unreadable" (it exists and reading it fails) or "ok"; rows  *)
(* are the lines as read, dates as text.  The workbook has a main sheet    *)
(* and an Impact_sheet that may be impossible to read on its own.          *)

exists(file) == file.st # "missing"

\* pd.read_csv(path)
read_csv(file) ==
    IF file.st = "missing" THEN Raise("FileNotFoundError")
    ELSE IF file.st = "unreadable" THEN Raise("ParserError")
    ELSE Ok(WithIndex(file.cols, file.rows))

\* pd.read_excel(excel_path, sheet_name=sheet)
read_excel(wb, sheet) ==
    IF wb.st = "missing" THEN Raise("FileNotFoundError")
    ELSE IF wb.st = "unreadable" THEN Raise("ValueError")
    ELSE IF sheet = "Impact_sheet"
         THEN IF wb.impact_st = "ok"
              THEN Ok(WithIndex(wb.impact.cols, wb.impact.rows))
              ELSE Raise("ValueError")
         ELSE Ok(WithIndex(wb.main.cols, wb.main.rows))

\* lines 38-43: the observation_date column parsed, when there is one
parse_observation_date(df) ==
    IF "observation_date" \in df.cols
    THEN Assign(df, "observation_date",
                [i \in DOMAIN df.rows |-> to_datetime(df.rows[i].observation_date)])
    ELSE df

\* load_unified_data reading the workbook first and the enriched CSV only
\* when the workbook cannot be read
load_unified_data_workbook_first(d) ==
    LET csv == read_csv(d.enriched)
        main == read_excel(d.workbook, "ethiopia_fi_unified_data")
        impact == read_excel(d.workbook, "Impact_sheet")
        loaded ==
            IF ~ raised(main)
            THEN Ok(<<main.val, IF raised(impact) THEN EmptyDF ELSE impact.val>>)
            ELSE IF raised(csv) THEN csv
            ELSE LET rows == csv.val.rows
                     mask == [i \in DOMAIN rows |-> rows[i].record_type = "impact_link"]
                 IN  Ok(<<csv.val,
                          [cols |-> csv.val.cols, rows |-> SelectRows(rows, mask)]>>)
        reads ==
            IF ~ raised(main) THEN {"workbook", "Impact_sheet"}
            ELSE {"workbook", "enriched"}
    IN  IF raised(loaded)
        THEN [exc |-> "", ret |-> <<EmptyDF, EmptyDF>>, report |-> <<"error">>,
              reads |-> reads]
        ELSE [exc |-> "", ret |-> <<parse_observation_date(loaded.val[1]), loaded.val[2]>>,
              report |-> <<>>, reads |-> reads]

\* body of load_unified_data: exc = the exception that escapes it (none: the
\* try block covers the whole body), ret = <<df_main, df_impact>>, report =
\* the st.warning / st.error calls, reads = the sources it tried to read
load_unified_data(d) ==
    LET csv == read_csv(d.enriched)
        main == read_excel(d.workbook, "ethiopia_fi_unified_data")
        impact == read_excel(d.workbook, "Impact_sheet")
        loaded ==
            IF exists(d.enriched)
            THEN IF raised(csv) THEN csv
                 ELSE IF "record_type" \notin csv.val.cols THEN Raise("KeyError")
                 ELSE LET rows == csv.val.rows
                          mask == [i \in DOMAIN rows |->
                                      rows[i].record_type = "impact_link"]
                      IN  Ok(<<csv.val,
                               [cols |-> csv.val.cols, rows |-> SelectRows(rows, mask)]>>)
            ELSE IF raised(main) THEN main
                 ELSE Ok(<<main.val, IF raised(impact) THEN EmptyDF ELSE impact.val>>)
        reads ==
            IF exists(d.enriched) THEN {"enriched"}
            ELSE IF raised(main) THEN {"workbook"}
            ELSE {"workbook", "Impact_sheet"}
    IN  IF raised(loaded)
        THEN [exc |-> "", ret |-> <<EmptyDF, EmptyDF>>, report |-> <<"error">>, reads |-> reads]
        ELSE [exc |-> "", ret |-> <<parse_observation_date(loaded.val[1]), loaded.val[2]>>,
              report |-> <<>>, reads |-> reads]

\* body of load_event_features: ret = None or Some(table)
load_event_features(d) ==
    IF ~ exists(d.features)
    THEN [exc |-> "", ret |-> None, report |-> <<"warning">>, reads |-> {}]
    ELSE IF raised(read_csv(d.features))
    THEN [exc |-> "", ret |-> None, report |-> <<"error">>, reads |-> {"features"}]
    ELSE [exc |-> "", ret |-> Some(read_csv(d.features).val), report |-> <<>>,
          reads |-> {"features"}]

\* body of load_event_matrix: ret = None or Some(table)
load_event_matrix(d) ==
    IF ~ exists(d.matrix)
    THEN [exc |-> "", ret |-> None, report |-> <<"warning">>, reads |-> {}]
    ELSE IF raised(read_csv(d.matrix))
    THEN [exc |-> "", ret |-> None, report |-> <<"error">>, reads |-> {"matrix"}]
    ELSE [exc |-> "", ret |-> Some(read_csv(d.matrix).val), report |-> <<>>,
          reads |-> {"matrix"}]

\* load_forecasts treating a wide file it cannot read like a missing one
load_forecasts_wide_unchecked(d) ==
    IF ~ exists(d.long)
    THEN [exc |-> "", ret |-> <<None, None>>, report |-> <<"warning">>, reads |-> {}]
    ELSE IF raised(read_csv(d.long))
    THEN [exc |-> "", ret |-> <<None, None>>, report |-> <<"error">>, reads |-> {"long"}]
    ELSE IF ~ exists(d.wide)
    THEN [exc |-> "", ret |-> <<Some(read_csv(d.long).val), None>>, report |-> <<>>,
          reads |-> {"long"}]
    ELSE IF raised(read_csv(d.wide))
    THEN [exc |-> "", ret |-> <<Some(read_csv(d.long).val), None>>, report |-> <<>>,
          reads |-> {"long", "wide"}]
    ELSE [exc |-> "", ret |-> <<Some(read_csv(d.long).val), Some(read_csv(d.wide).val)>>,
          report |-> <<>>, reads |-> {"long", "wide"}]

\* body of load_forecasts: ret = <<df_long, df_wide>>, each None or Some(table)
load_forecasts(d) ==
    IF ~ exists(d.long)
    THEN [exc |-> "", ret |-> <<None, None>>, report |-> <<"warning">>, reads |-> {}]
    ELSE IF raised(read_csv(d.long))
    THEN [exc |-> "", ret |-> <<None, None>>, report |-> <<"error">>, reads |-> {"long"}]
    ELSE IF ~ exists(d.wide)
    THEN [exc |-> "", ret |-> <<Some(read_csv(d.long).val), None>>, report |-> <<>>,
          reads |-> {"long"}]
    ELSE IF raised(read_csv(d.wide))
    THEN [exc |-> "", ret |-> <<None, None>>, report |-> <<"error">>, reads |-> {"long", "wide"}]
    ELSE [exc |-> "", ret |-> <<Some(read_csv(d.long).val), Some(read_csv(d.wide).val)>>,
          report |-> <<>>, reads |-> {"long", "wide"}]

Loads ==
    {"load_unified_data", "load_event_features", "load_event_matrix",
     "load_forecasts"}

\* a call of an undecorated function: the body runs at every call
cache_data_every_call(c, fn, body) ==
    [ran |-> TRUE] @@ body

\* a call of a function decorated with @st.cache_data, given the cache c and
\* what the body would give on the files of the moment: the body runs only
\* when the function has no entry (ran); otherwise the result and the
\* messages of the stored run are handed out again
cache_data(c, fn, body) ==
    IF c[fn] # None
    THEN [ran |-> FALSE, exc |-> "", ret |-> c[fn][1].ret,
          report |-> c[fn][1].report, reads |-> {}]
    ELSE [ran |-> TRUE] @@ body

\* the entry of the cache after the call that gave r, if the script reached
\* the call: the result of a body that ran and raised nothing is stored
Stored(c, fn, r, reached) ==
    IF reached /\ r.ran /\ r.exc = ""
    THEN Some([ret |-> r.ret, report |-> r.report])
    ELSE c[fn]

\* the log of the executions after the call that gave r
Logged(x, fn, d, r, reached) ==
    IF reached /\ r.ran
    THEN Append(x, [fn |-> fn, saw |-> d, exc |-> r.exc, ret |-> r.ret,
                    report |-> r.report, reads |-> r.reads])
    ELSE x

-----------------------------------------------------------------------------
(* app.py: what a run of the script draws.  An element is [kind, label,    *)
(* data]; a run is [exc, els]: the elements drawn in order and the         *)
(* exception that ended the run ("" when it reached the end).              *)

El(kind, label, data) == [kind |-> kind, label |-> label, data |-> data]
Drawn(els) == [exc |-> "", els |-> els]
Failed(e, els) == [exc |-> e, els |-> els]

\* b after a: nothing of b happens when a ended in an exception
Then(a, b) ==
    IF a.exc # "" THEN a ELSE [exc |-> b.exc, els |-> a.els \o b.els]

\* Python truth value of a number or None (if latest_access: ...)
Truthy(v) == v # NA /\ v[1] # 0

\* f"{x:.1f}%"
Pct(v) == <<"%.1f%%", v[1]>>

\* Series.unique().tolist(): the values in order of first appearance
Unique(cells) ==
    LET first == SelectSeq([i \in DOMAIN cells |-> i],
                           LAMBDA i : \A j \in 1..(i - 1) : cells[j] # cells[i])
    IN  [k \in DOMAIN first |-> cells[first[k]]]

Range(seq) == {seq[i] : i \in DOMAIN seq}

\* st.metric for a value looked up by get_latest_value / get_forecast_value
Metric(label, na_label, v) ==
    IF Truthy(v) THEN El("metric", label, Pct(v)) ELSE El("metric", na_label, <<"N/A">>)

\* the rows of the long forecast table for one indicator and one scenario, in
\* each order sort_values('year') can give them
ScenarioRows(fc, code, scenario) ==
    LET mask == [i \in DOMAIN fc.rows |->
                    /\ fc.rows[i].indicator_code = code
                    /\ fc.rows[i].scenario = scenario]
        data == SelectRows(fc.rows, mask)
    IN  sort_values(data, [i \in DOMAIN data |-> data[i].year[1]])

\* one line of a chart: go.Scatter(x, y, name)
Trace(name, rows, x, y) ==
    El("trace", name, [i \in DOMAIN rows |-> <<rows[i][x], rows[i][y]>>])

\* lines 166-181: the forecast outlook panel
Outlook(forecast_2027, forecast_wide) ==
    LET wide == forecast_wide[1]
        mask == [i \in DOMAIN wide.rows |->
                    /\ wide.rows[i].year = Num(2027)
                    /\ wide.rows[i].indicator_code = "ACC_OWNERSHIP"]
        access_2027 == SelectRows(wide.rows, mask)
        range ==
            IF forecast_wide = None THEN Drawn(<<>>)
            ELSE IF empty(wide) THEN Drawn(<<>>)
            ELSE IF ~ ({"year", "indicator_code"} \subseteq wide.cols)
                 THEN Failed("KeyError", <<>>)
            ELSE IF access_2027 # <<>> /\ "lower" \in wide.cols
                 THEN IF "upper" \in wide.cols
                      THEN Drawn(<<El("write", "Uncertainty range",
                                      <<access_2027[1].lower, access_2027[1].upper>>)>>)
                      ELSE Failed("KeyError", <<>>)
            ELSE Drawn(<<>>)
    IN  Then(IF Truthy(forecast_2027)
             THEN Then(Drawn(<<El("write", "2027 base forecast", Pct(forecast_2027))>>),
                       range)
             ELSE Drawn(<<>>),
             Drawn(<<El("write", "Key drivers", <<>>)>>))

\* lines 95-229 for one outcome of each of the lookups the page makes
OverviewWith(observations, events, forecast_long, forecast_wide, scenario_filter,
             latest_access, latest_mm, latest_usage, acc_series, forecast_access) ==
    LET forecast_2027 == get_forecast_value(forecast_long, "ACC_OWNERSHIP", 2027, "base")
        kpi1 == IF raised(latest_access) THEN Failed(latest_access.exc, <<>>)
                ELSE Drawn(<<Metric("Latest Account Ownership",
                                    "Latest Account Ownership", latest_access.val)>>)
        kpi2 == IF raised(latest_mm) THEN Failed(latest_mm.exc, <<>>)
                ELSE Drawn(<<Metric("Mobile Money Accounts",
                                    "Mobile Money Accounts", latest_mm.val)>>)
        kpi3 == IF raised(latest_usage) THEN Failed(latest_usage.exc, <<>>)
                ELSE Drawn(<<Metric("Digital Payment Usage",
                                    "Digital Payment Usage", latest_usage.val)>>)
        kpi4 == IF raised(forecast_2027) THEN Failed(forecast_2027.exc, <<>>)
                ELSE IF Truthy(forecast_2027.val)
                THEN Drawn(<<El("metric", "2027 Forecast (Access)",
                                <<Pct(forecast_2027.val),
                                  IF 60 - forecast_2027.val[1] > 0
                                  THEN <<"pp to 60% target", forecast_2027.val[1] - 60>>
                                  ELSE <<"Target met">>>>)>>)
                ELSE Drawn(<<El("metric", "2027 Forecast", <<"N/A">>)>>)
        current ==
            Drawn((IF Truthy(latest_access.val) /\ Truthy(latest_mm.val)
                   THEN <<El("write", "Account ownership", Pct(latest_access.val)),
                          El("write", "Mobile money penetration", Pct(latest_mm.val)),
                          El("write", "Traditional banking dominates",
                             <<latest_access.val[1] - latest_mm.val[1]>>)>>
                   ELSE <<>>)
                  \o <<El("write", "Total events tracked", <<Len(events.rows)>>)>>)
        historical ==
            IF raised(acc_series) THEN Failed(acc_series.exc, <<>>)
            ELSE IF ~ empty(acc_series.val)
            THEN Drawn(<<Trace("Historical", acc_series.val.rows,
                               "observation_date", "value_numeric")>>)
            ELSE Drawn(<<>>)
        forecast ==
            IF forecast_long = None THEN Drawn(<<>>)
            ELSE IF forecast_access # <<>>
            THEN Drawn(<<El("trace", "Forecast", <<scenario_filter,
                            [i \in DOMAIN forecast_access |->
                                <<forecast_access[i].year,
                                  forecast_access[i].forecast_value>>]>>)>>)
            ELSE Drawn(<<>>)
        chart ==
            IF ~ empty(observations)
            THEN Then(historical, Then(forecast,
                      Drawn(<<El("chart", "Account Ownership: Historical + Forecast",
                                 <<>>)>>)))
            ELSE Drawn(<<>>)
    IN  Then(Drawn(<<El("header", "Overview", <<>>)>>),
        Then(kpi1, Then(kpi2, Then(kpi3, Then(kpi4,
        Then(current,
        Then(Outlook(forecast_2027.val, forecast_wide), chart)))))))

\* lines 95-229: the set of runs of the Overview page
Overview(observations, events, forecast_long, forecast_wide, scenario_filter) ==
    {OverviewWith(observations, events, forecast_long, forecast_wide, scenario_filter,
                  la, lm, lu, acc, fa) :
        la \in get_latest_value(observations, "ACC_OWNERSHIP"),
        lm \in get_latest_value(observations, "ACC_MM_ACCOUNT"),
        lu \in get_latest_value(observations, "USG_DIGITAL_PAYMENT"),
        acc \in get_indicator_series(observations, "ACC_OWNERSHIP"),
        fa \in IF forecast_long = None THEN {<<>>}
               ELSE ScenarioRows(forecast_long[1], "ACC_OWNERSHIP", scenario_filter)}

\* observations.pivot_table(index='indicator_code', columns='year',
\* values='value_numeric', aggfunc='count', fill_value=0) as the set of
\* <<indicator, year, count>> cells
Coverage(observations) ==
    LET rows == observations.rows
        dated == {i \in DOMAIN rows : notna(rows[i].year)}
    IN  {<<c, y, Cardinality({i \in dated : /\ rows[i].indicator_code = c
                                           /\ rows[i].year = y
                                           /\ notna(rows[i].value_numeric)})>> :
            c \in {rows[i].indicator_code : i \in dated},
            y \in {rows[i].year : i \in dated}}

\* Series.value_counts() as the set of <<value, count>>
ValueCounts(cells) ==
    {<<v, Cardinality({i \in DOMAIN cells : cells[i] = v})>> :
        v \in {cells[i] : i \in DOMAIN cells} \ {NA}}

\* lines 234-315
DataCoverage(observations, events, df_impact) ==
    LET summary ==
            <<El("header", "Data Coverage", <<>>),
              El("metric", "Total Observations", <<Len(observations.rows)>>),
              El("metric", "Total Events", <<Len(events.rows)>>),
              El("metric", "Impact Links",
                 <<IF ~ empty(df_impact) THEN Len(df_impact.rows) ELSE 0>>)>>
        coverage ==
            IF ~ empty(observations) /\ "year" \in observations.cols
            THEN <<El("chart", "Data Availability Heatmap", Coverage(observations)),
                   El("dataframe", "View Coverage Table", Coverage(observations))>>
            ELSE <<El("info", "No observation data available", <<>>)>>
        by_category ==
            IF "category" \in events.cols
            THEN <<El("chart", "Events by Category",
                      ValueCounts(Column(events, "category")))>>
            ELSE <<>>
        by_date ==
            IF "event_date_parsed" \in events.cols
            THEN LET parsed == Column(events, "event_date_parsed")
                 IN  <<El("chart", "Event Date Availability",
                          <<Cardinality({i \in DOMAIN parsed : notna(parsed[i])}),
                            Cardinality({i \in DOMAIN parsed : ~ notna(parsed[i])})>>)>>
            ELSE <<>>
    IN  {Drawn(summary \o coverage
               \o (IF ~ empty(events) THEN by_category \o by_date ELSE <<>>))}

\* lines 324-330: the options and the default of the indicator multiselect
available_indicators(observations) ==
    IF ~ empty(observations) THEN Unique(Column(observations, "indicator_code"))
    ELSE <<>>

default_indicators(available) ==
    IF "ACC_OWNERSHIP" \in Range(available)
    THEN <<"ACC_OWNERSHIP", "USG_DIGITAL_PAYMENT">>
    ELSE SubSeq(available, 1, IF Len(available) < 2 THEN Len(available) ELSE 2)

\* st.multiselect(options, default): a default that is not among the options
\* is refused with a StreamlitAPIException
multiselect(label, options, default, selected) ==
    IF Range(default) \subseteq Range(options)
    THEN Drawn(<<El("multiselect", label, <<options, selected>>)>>)
    ELSE Failed("StreamlitAPIException", <<>>)

\* what the user can have selected in the indicator multiselect
IndicatorSelections(available) ==
    {default_indicators(available), <<>>, available}

\* lines 332-368 for one outcome of each get_indicator_series call
TrendsWith(observations, selected_indicators, series) ==
    LET shown == SelectSeq(selected_indicators,
                           LAMBDA c : ~ empty(series[c].val))
        traces == [k \in DOMAIN shown |->
                      Trace(shown[k], series[shown[k]].val.rows,
                            "observation_date", "value_numeric")]
        tables == [k \in DOMAIN shown |->
                      El("dataframe", shown[k],
                         [i \in DOMAIN series[shown[k]].val.rows |->
                             <<series[shown[k]].val.rows[i].observation_date,
                               series[shown[k]].val.rows[i].value_numeric>>
                             \o (IF "year" \in observations.cols
                                 THEN <<series[shown[k]].val.rows[i].year>>
                                 ELSE <<>>)])]
    IN  IF selected_indicators # <<>> /\ ~ empty(observations)
        THEN IF \E c \in Range(selected_indicators) : raised(series[c])
             THEN Failed("KeyError", <<>>)
             ELSE Drawn(traces \o <<El("chart", "Indicator Trends Over Time", <<>>)>>
                        \o tables)
        ELSE Drawn(<<El("info", "Select indicators to display trends", <<>>)>>)

\* lines 320-368: the set of runs of the Trends page
Trends(observations, selected_indicators) ==
    LET available == available_indicators(observations)
        widget == multiselect("Select Indicators to Display", available,
                              default_indicators(available), selected_indicators)
    IN  {Then(Drawn(<<El("header", "Trends", <<>>)>>),
         Then(widget, TrendsWith(observations, selected_indicators, series))) :
            series \in {f \in [Range(selected_indicators) ->
                                 UNION {get_indicator_series(observations, c) :
                                           c \in Range(selected_indicators)}] :
                           \A c \in Range(selected_indicators) :
                              f[c] \in get_indicator_series(observations, c)}}

\* what the user can have selected in the category multiselect
CategorySelections(categories) ==
    {categories, <<>>} \cup {<<categories[i]>> : i \in DOMAIN categories}

\* lines 379-415: the event timeline, in each order the event list can have
Timeline(events, selected_categories) ==
    LET dated == SelectRows(events.rows,
                            [i \in DOMAIN events.rows |->
                                notna(events.rows[i].event_date_parsed)])
        categories == IF "category" \in events.cols
                      THEN Unique([i \in DOMAIN dated |-> dated[i].category])
                      ELSE <<>>
        filtered == IF selected_categories # <<>>
                    THEN SelectRows(dated,
                                    [i \in DOMAIN dated |->
                                        dated[i].category \in Range(selected_categories)])
                    ELSE dated
        listed == sort_values(filtered,
                              [i \in DOMAIN filtered |-> 0 - filtered[i].event_date_parsed[2]])
    IN  IF ~ empty(events) /\ "event_date_parsed" \in events.cols
        THEN IF dated # <<>>
             THEN {Then(multiselect("Filter by Category", categories, categories,
                                    selected_categories),
                        \* px.scatter(..., hover_data=['indicator'])
                        IF "indicator" \notin events.cols
                        THEN Failed("ValueError", <<>>)
                        ELSE Drawn(<<Trace("Event Timeline", filtered,
                                           "event_date_parsed", "category"),
                                     El("dataframe", "View Event List",
                                        [i \in DOMAIN l |->
                                           <<l[i].indicator, l[i].category,
                                             l[i].event_date_parsed>>])>>)) :
                      l \in listed}
             ELSE {Drawn(<<El("warning", "No events with valid dates found", <<>>)>>)}
        ELSE {Drawn(<<El("warning", "No event data available", <<>>)>>)}

\* the categories offered by the category multiselect
TimelineCategories(events) ==
    IF ~ empty(events) /\ {"event_date_parsed", "category"} \subseteq events.cols
    THEN Unique(Column([cols |-> events.cols,
                        rows |-> SelectRows(events.rows,
                                    [i \in DOMAIN events.rows |->
                                        notna(events.rows[i].event_date_parsed)])],
                       "category"))
    ELSE <<>>

\* the heatmap drawn whether or not there is a matrix
ImpactMatrix_unguarded(event_matrix) ==
    Drawn(<<El("chart", "Event Impact Weights by Indicator",
               IF event_matrix # None THEN event_matrix[1].rows ELSE <<>>),
            El("dataframe", "View Matrix Data",
               IF event_matrix # None THEN event_matrix[1].rows ELSE <<>>)>>)

\* lines 417-438: the impact matrix
ImpactMatrix(event_matrix) ==
    IF event_matrix # None
    THEN Drawn(<<El("chart", "Event Impact Weights by Indicator", event_matrix[1].rows),
                 El("dataframe", "View Matrix Data", event_matrix[1].rows)>>)
    ELSE Drawn(<<El("info", "Event matrix not available", <<>>)>>)

\* lines 440-464: the lines of up to four event_effect columns
EventEffects(event_features) ==
    IF event_features # None
    THEN LET cols == event_features[1].cols
             effect_cols == SelectSeq(cols, LAMBDA c : c[1] = "event_effect")
             first4 == SubSeq(effect_cols, 1,
                              IF Len(effect_cols) < 4 THEN Len(effect_cols) ELSE 4)
         IN  Drawn([k \in DOMAIN first4 |->
                       El("trace", first4[k][2], Column(event_features[1], first4[k][2]))]
                   \o <<El("chart", "Event Effects Timeline", <<>>)>>)
    ELSE Drawn(<<>>)

\* lines 373-464: the set of runs of the Events & Impact page
EventsImpact(events, event_matrix, event_features, selected_categories) ==
    {Then(Drawn(<<El("header", "Events & Impact", <<>>)>>),
     Then(t, Then(ImpactMatrix(event_matrix), EventEffects(event_features)))) :
        t \in Timeline(events, selected_categories)}

\* the indicators offered by the selectbox of the Forecasts page
available_forecast_indicators(forecast_long) ==
    IF forecast_long = None THEN <<>>
    ELSE Unique(Column(forecast_long[1], "indicator_code"))

\* what the selectbox can return: one of its options, None when it has none
ForecastSelections(forecast_long) ==
    LET available == available_forecast_indicators(forecast_long)
    IN  IF available = <<>> THEN {<<>>}
        ELSE {<<available[i]>> : i \in DOMAIN available}

\* the band drawn from every row of the wide table, whatever the indicator
UncertaintyBand_every_indicator(forecast_wide, selected) ==
    IF forecast_wide = None THEN {Drawn(<<>>)}
    ELSE LET wide == forecast_wide[1]
         IN  {IF w # <<>> /\ "lower" \in wide.cols /\ "upper" \in wide.cols
              THEN Drawn(<<Trace("Upper Bound", w, "year", "upper"),
                           Trace("Uncertainty Band", w, "year", "lower")>>)
              ELSE Drawn(<<>>) :
                 w \in sort_values(wide.rows,
                                   [i \in DOMAIN wide.rows |-> wide.rows[i].year[1]])}

\* lines 522-543: the uncertainty band of the selected indicator
UncertaintyBand(forecast_wide, selected) ==
    IF forecast_wide = None THEN {Drawn(<<>>)}
    ELSE IF "indicator_code" \notin forecast_wide[1].cols
         THEN {Failed("KeyError", <<>>)}
    ELSE LET wide == forecast_wide[1]
             data == SelectRows(wide.rows,
                                [i \in DOMAIN wide.rows |->
                                    wide.rows[i].indicator_code = selected])
         IN  {IF w # <<>> /\ "lower" \in wide.cols /\ "upper" \in wide.cols
              THEN Drawn(<<Trace("Upper Bound", w, "year", "upper"),
                           Trace("Uncertainty Band", w, "year", "lower")>>)
              ELSE Drawn(<<>>) :
                 w \in sort_values(data, [i \in DOMAIN data |-> data[i].year[1]])}

\* lines 486-554: the chart of the selected indicator
ForecastChart(observations, forecast_long, forecast_wide, selected) ==
    {Then(IF raised(historical) THEN Failed(historical.exc, <<>>)
          ELSE IF ~ empty(historical.val)
          THEN Drawn(<<Trace("Historical", historical.val.rows,
                             "observation_date", "value_numeric")>>)
          ELSE Drawn(<<>>),
     Then(Drawn((IF base # <<>>
                 THEN <<Trace("Base", base, "year", "forecast_value")>> ELSE <<>>)
             \o (IF optimistic # <<>>
                 THEN <<Trace("Optimistic", optimistic, "year", "forecast_value")>>
                 ELSE <<>>)
             \o (IF pessimistic # <<>>
                 THEN <<Trace("Pessimistic", pessimistic, "year", "forecast_value")>>
                 ELSE <<>>)),
     Then(band, Drawn(<<El("chart", "Historical + Forecast Scenarios", selected)>>)))) :
        historical \in get_indicator_series(observations, selected),
        base \in ScenarioRows(forecast_long[1], selected, "base"),
        optimistic \in ScenarioRows(forecast_long[1], selected, "optimistic"),
        pessimistic \in ScenarioRows(forecast_long[1], selected, "pessimistic"),
        band \in UncertaintyBand(forecast_wide, selected)}

\* lines 577-611: the key findings panel
Findings(forecast_long) ==
    LET access_2027_base == get_forecast_value(forecast_long, "ACC_OWNERSHIP", 2027, "base")
        usage_2027_base ==
            get_forecast_value(forecast_long, "USG_DIGITAL_PAYMENT", 2027, "base")
    IN  Then(IF raised(access_2027_base) THEN Failed(access_2027_base.exc, <<>>)
             ELSE IF Truthy(access_2027_base.val)
             THEN Drawn(<<El("write", "Account Ownership 2027 (base)",
                             Pct(access_2027_base.val)),
                          IF 60 - access_2027_base.val[1] > 0
                          THEN El("write", "Gap to 60% target",
                                  <<60 - access_2027_base.val[1]>>)
                          ELSE El("write", "On track to meet 60% target", <<>>)>>)
             ELSE Drawn(<<>>),
        Then(IF raised(usage_2027_base) THEN Failed(usage_2027_base.exc, <<>>)
             ELSE IF Truthy(usage_2027_base.val)
             THEN Drawn(<<El("write", "Digital Payment Usage 2027 (base)",
                             Pct(usage_2027_base.val))>>)
             ELSE Drawn(<<>>),
             Drawn(<<El("write", "Key Drivers", <<>>),
                     El("write", "Risks & Uncertainties", <<>>)>>)))

\* lines 469-611: the set of runs of the Forecasts page; selected is <<>> or
\* <<indicator>>
Forecasts(observations, forecast_long, forecast_wide, selected) ==
    IF forecast_long = None
    THEN {Drawn(<<El("header", "Forecasts", <<>>),
                  El("error", "Forecast data not available", <<>>)>>)}
    ELSE {Then(Drawn(<<El("header", "Forecasts", <<>>),
                       El("selectbox", "Select Indicator",
                          <<available_forecast_indicators(forecast_long), selected>>)>>),
          Then(chart,
          Then(Drawn(<<El("dataframe", "Forecast Data Table",
                          IF forecast_wide # None THEN forecast_wide[1].rows
                          ELSE forecast_long[1].rows),
                       El("download", "ethiopia_fi_forecast_2025_2027.csv",
                          forecast_long[1].rows)>>),
               Findings(forecast_long)))) :
             chart \in IF selected # <<>>
                       THEN ForecastChart(observations, forecast_long, forecast_wide,
                                          selected[1])
                       ELSE {Drawn(<<>>)}}

-----------------------------------------------------------------------------
(* app.py: one run of the script *)

\* lines 59-65 for the outcomes u, f, m, fc of the four cached loads and the
\* outcomes of the two partitions; a statement that raises ends the run, and
\* the loads after it are not called
Loaded(c, x, d, u, f, m, fc, observations, events) ==
    LET \* how many of the four loads were called
        called == IF u.exc # "" \/ raised(observations) \/ raised(events) THEN 1
                  ELSE IF f.exc # "" THEN 2
                  ELSE IF m.exc # "" THEN 3
                  ELSE 4
    IN  [cache |-> [load_unified_data |-> Stored(c, "load_unified_data", u, TRUE),
                    load_event_features |->
                        Stored(c, "load_event_features", f, called >= 2),
                    load_event_matrix |->
                        Stored(c, "load_event_matrix", m, called >= 3),
                    load_forecasts |->
                        Stored(c, "load_forecasts", fc, called >= 4)],
         execs |-> Logged(Logged(Logged(Logged(x, "load_unified_data", d, u, TRUE),
                                        "load_event_features", d, f, called >= 2),
                                 "load_event_matrix", d, m, called >= 3),
                          "load_forecasts", d, fc, called >= 4),
         exc |-> IF u.exc # "" THEN u.exc
                 ELSE IF raised(observations) \/ raised(events) THEN "KeyError"
                 ELSE IF f.exc # "" THEN f.exc
                 ELSE IF m.exc # "" THEN m.exc
                 ELSE fc.exc,
         report |-> u.report
                    \o (IF called >= 2 THEN f.report ELSE <<>>)
                    \o (IF called >= 3 THEN m.report ELSE <<>>)
                    \o (IF called >= 4 THEN fc.report ELSE <<>>),
         df_main |-> u.ret[1], df_impact |-> u.ret[2],
         observations |-> IF raised(observations) THEN EmptyDF ELSE observations.val,
         events |-> IF raised(events) THEN EmptyDF ELSE events.val,
         event_features |-> f.ret, event_matrix |-> m.ret,
         forecast_long |-> fc.ret[1], forecast_wide |-> fc.ret[2]]

\* lines 61-62: observations = get_observations(df_main);
\* events = get_events(df_main)
Partitioned(c, x, d, u, f, m, fc) ==
    Loaded(c, x, d, u, f, m, fc, get_observations(u.ret[1]), get_events(u.ret[1]))

\* lines 59-65: the four cached loads and the two partitions, given the
\* cache c, the log x and the names d of the files on disk
LoadData(c, x, d) ==
    Partitioned(c, x, d,
        cache_data(c, "load_unified_data", load_unified_data(Mount(d))),
        cache_data(c, "load_event_features", load_event_features(Mount(d))),
        cache_data(c, "load_event_matrix", load_event_matrix(Mount(d))),
        cache_data(c, "load_forecasts", load_forecasts(Mount(d))))

\* the st.warning / st.error boxes of the loads (shown again from the cache)
Messages(report) == [i \in DOMAIN report |-> El(report[i], "load", <<>>)]

Min(S) == CHOOSE m \in S : \A n \in S : m <= n

Max(S) == CHOOSE m \in S : \A n \in S : m >= n

\* line 72: the years of the observations
ObservationYears(observations) ==
    IF ~ empty(observations) /\ "year" \in observations.cols
    THEN {observations.rows[i].year[1] :
             i \in {j \in DOMAIN observations.rows : notna(observations.rows[j].year)}}
    ELSE {}

\* lines 75-84: year_range while the slider is left alone, or without slider
DefaultYears(observations) ==
    IF ObservationYears(observations) # {}
    THEN <<Min(ObservationYears(observations)), 2027>>
    ELSE <<2014, 2027>>

\* values the user can give the slider: from the first or the last year of
\* the observations, to the last year of the observations or 2027
YearRanges(observations) ==
    IF ObservationYears(observations) # {}
    THEN {<<lo, hi>> :
             lo \in {Min(ObservationYears(observations)),
                     Max(ObservationYears(observations))},
             hi \in {Max(ObservationYears(observations)), 2027}}
    ELSE {DefaultYears(observations)}

\* lines 67-90: the year range slider and the scenario selectbox
Sidebar(observations, year_range, scenario_filter) ==
    Drawn((IF ObservationYears(observations) # {}
           THEN <<El("slider", "Year Range",
                     <<Min(ObservationYears(observations)), 2027, year_range>>)>>
           ELSE <<>>)
          \o <<El("selectbox", "Forecast Scenario", scenario_filter)>>)

\* line 89: the options of the scenario selectbox
Scenarios == {"base", "optimistic", "pessimistic"}

Pages == {"Overview", "Data Coverage", "Trends", "Events & Impact", "Forecasts"}

\* what the page's own selector can hold
Selections(page, data) ==
    CASE page = "Trends" -> IndicatorSelections(available_indicators(data.observations))
      [] page = "Events & Impact" -> CategorySelections(TimelineCategories(data.events))
      [] page = "Forecasts" -> ForecastSelections(data.forecast_long)
      [] OTHER -> {<<>>}

\* the Forecasts page given only the rows of the scenario chosen in the
\* sidebar
PageRuns_scenario_on_forecasts(page, data, scenario_filter, sel) ==
    CASE page = "Overview" ->
            Overview(data.observations, data.events, data.forecast_long,
                     data.forecast_wide, scenario_filter)
      [] page = "Data Coverage" ->
            DataCoverage(data.observations, data.events, data.df_impact)
      [] page = "Trends" -> Trends(data.observations, sel)
      [] page = "Events & Impact" ->
            EventsImpact(data.events, data.event_matrix, data.event_features, sel)
      [] page = "Forecasts" ->
            Forecasts(data.observations,
                      IF data.forecast_long = None THEN None
                      ELSE Some([cols |-> data.forecast_long[1].cols,
                                 rows |-> SelectSeq(data.forecast_long[1].rows,
                                             LAMBDA row : row.scenario = scenario_filter)]),
                      data.forecast_wide, sel)

\* lines 95-611: the branch of the selected page
PageRuns(page, data, scenario_filter, sel) ==
    CASE page = "Overview" ->
            Overview(data.observations, data.events, data.forecast_long,
                     data.forecast_wide, scenario_filter)
      [] page = "Data Coverage" ->
            DataCoverage(data.observations, data.events, data.df_impact)
      [] page = "Trends" -> Trends(data.observations, sel)
      [] page = "Events & Impact" ->
            EventsImpact(data.events, data.event_matrix, data.event_features, sel)
      [] page = "Forecasts" ->
            Forecasts(data.observations, data.forecast_long, data.forecast_wide, sel)

Footer == Drawn(<<El("footer", "Ethiopia Financial Inclusion Dashboard", <<>>)>>)

\* the script with the observations cut to the year range before the page
\* branch
Script_year_filtered(page, data, year_range, scenario_filter, sel) ==
    LET top == Drawn(<<El("radio", "Select Page", page)>> \o Messages(data.report))
        cut == [data EXCEPT !.observations =
                   [cols |-> @.cols,
                    rows |-> SelectSeq(@.rows,
                                LAMBDA row : /\ notna(row.year)
                                             /\ row.year[1] >= year_range[1]
                                             /\ row.year[1] <= year_range[2])]]
    IN  IF data.exc # "" THEN {Then(top, Failed(data.exc, <<>>))}
        ELSE {Then(top, Then(Sidebar(data.observations, year_range, scenario_filter),
                        Then(p, Footer))) :
                 p \in PageRuns(page, cut, scenario_filter, sel)}

\* the whole script, top to bottom
Script(page, data, year_range, scenario_filter, sel) ==
    LET top == Drawn(<<El("radio", "Select Page", page)>> \o Messages(data.report))
    IN  IF data.exc # "" THEN {Then(top, Failed(data.exc, <<>>))}
        ELSE {Then(top, Then(Sidebar(data.observations, year_range, scenario_filter),
                        Then(p, Footer))) :
                 p \in PageRuns(page, data, scenario_filter, sel)}

\* a user interaction: the script runs again with the widget values of the
\* moment; the year slider has been moved or is at its default
Rerun(page, moved) ==
    \E data \in {LoadData(cache, execs, disk)} :
        /\ cache' = data.cache
        /\ execs' = data.execs
        /\ \E scenario_filter \in Scenarios :
           \E year_range \in (IF data.exc # "" THEN {<<2014, 2027>>}
                              ELSE IF moved THEN YearRanges(data.observations)
                              ELSE {DefaultYears(data.observations)}) :
           \E sel \in (IF data.exc # "" THEN {<<>>} ELSE Selections(page, data)) :
           \E r \in Script(page, data, year_range, scenario_filter, sel) :
              ui' = [page |-> page, scenario |-> scenario_filter, sel |-> sel,
                     years |-> year_range, at |-> changes, exc |-> r.exc,
                     els |-> r.els]
        /\ UNCHANGED <<disk, changes, utilVars>>

Run(page) == Rerun(page, FALSE)

\* a run after the user moved the year slider
Slide == \E page \in Pages : Rerun(page, TRUE)

Run_Overview == Run("Overview")
Run_DataCoverage == Run("Data Coverage")
Run_Trends == Run("Trends")
Run_EventsImpact == Run("Events & Impact")
Run_Forecasts == Run("Forecasts")

-----------------------------------------------------------------------------
(* SpecUtils: the query functions applied to every table of the universe *)

NoCall == [fn |-> "none"]

NoDisk == [f \in {} |-> f]
NoCache == [fn \in Loads |-> None]
NoRun ==
    [page |-> "none", scenario |-> "base", sel |-> <<>>, years |-> <<2014, 2027>>,
     at |-> 0, exc |-> "",
     els |-> <<>>]

InitUtils ==
    /\ call = NoCall
    /\ disk = NoDisk /\ cache = NoCache /\ execs = <<>> /\ ui = NoRun
    /\ changes = 0
    /\ \/ df_main \in LoadedTables /\ forecast_df = None
       \/ df_main = EmptyDF /\ forecast_df \in ForecastTables

\* app.py lines 61-62: observations = get_observations(df_main);
\* events = get_events(df_main)
Call_get_observations_events ==
    /\ call.fn = "none"
    /\ call' = [fn |-> "partition", arg |-> df_main,
                observations |-> get_observations(df_main),
                events |-> get_events(get_observations_arg(df_main))]
    /\ df_main' = get_events_arg(get_observations_arg(df_main))
    /\ UNCHANGED <<forecast_df, appVars>>

Call_get_indicator_series ==
    /\ call.fn = "none"
    /\ ~ raised(get_observations(df_main))
    /\ \E code \in QueryCodes :
       \E ret \in get_indicator_series(get_observations(df_main).val, code) :
          call' = [fn |-> "get_indicator_series",
                   arg |-> get_observations(df_main).val,
                   code |-> code, ret |-> ret]
    /\ UNCHANGED <<df_main, forecast_df, appVars>>

Call_get_latest_value ==
    /\ call.fn = "none"
    /\ ~ raised(get_observations(df_main))
    /\ \E code \in QueryCodes :
       \E ret \in get_latest_value(get_observations(df_main).val, code) :
          call' = [fn |-> "get_latest_value",
                   arg |-> get_observations(df_main).val,
                   code |-> code, ret |-> ret]
    /\ UNCHANGED <<df_main, forecast_df, appVars>>

Call_get_forecast_value ==
    /\ call.fn = "none"
    /\ \E code \in {"ACC_OWNERSHIP", "USG_DIGITAL_PAYMENT"}, year \in {2026, 2027},
          scenario \in Scenarios :
          call' = [fn |-> "get_forecast_value", arg |-> forecast_df,
                   code |-> code, year |-> year, scenario |-> scenario,
                   ret |-> get_forecast_value(forecast_df, code, year, scenario)]
    /\ UNCHANGED <<df_main, forecast_df, appVars>>

NextUtils ==
    \/ Call_get_observations_events
    \/ Call_get_indicator_series
    \/ Call_get_latest_value
    \/ Call_get_forecast_value

SpecUtils == InitUtils /\ [][NextUtils]_vars

-----------------------------------------------------------------------------
(* Spec: the dashboard run on every combination of input files.            *)
(* SpecSession: one server process while the files change on disk.         *)

Init ==
    /\ disk \in DiskStates
    /\ cache = NoCache /\ execs = <<>> /\ ui = NoRun /\ changes = 0
    /\ df_main = EmptyDF /\ forecast_df = None /\ call = NoCall

Next ==
    \/ Run_Overview
    \/ Run_DataCoverage
    \/ Run_Trends
    \/ Run_EventsImpact
    \/ Run_Forecasts

Spec == Init /\ [][Next]_vars

\* every file missing, or every file there
SessionDisks ==
    {[enriched |-> "missing", workbook |-> "missing", features |-> "missing",
      matrix |-> "missing", long |-> "missing", wide |-> "missing"],
     [enriched |-> "full", workbook |-> "access", features |-> "full",
      matrix |-> "full", long |-> "full", wide |-> "full"]}

InitSession ==
    /\ disk \in SessionDisks
    /\ cache = NoCache /\ execs = <<>> /\ ui = NoRun /\ changes = 0
    /\ df_main = EmptyDF /\ forecast_df = None /\ call = NoCall

\* what a file can become during a session: removed, damaged, or written
\* with its complete content
SessionVersions ==
    [f \in DOMAIN Versions |->
        IF f = "workbook" THEN {"missing", "unreadable", "access"}
        ELSE {"missing", "unreadable", "full"}]

\* the pipeline outside the dashboard writes, replaces or removes a file
ChangeFile ==
    /\ changes < MaxDiskChanges
    /\ \E f \in DOMAIN disk : \E new \in SessionVersions[f] \ {disk[f]} :
          disk' = [disk EXCEPT ![f] = new]
    /\ changes' = changes + 1
    /\ UNCHANGED <<cache, execs, ui, utilVars>>

NextSession ==
    \/ ChangeFile
    \/ Run_Overview
    \/ Run_DataCoverage
    \/ Run_Trends
    \/ Run_EventsImpact
    \/ Run_Forecasts

SpecSession == InitSession /\ [][NextSession]_vars

\* SpecSlider: the dashboard with the year slider moved, on every version of
\* the unified data and of the long forecast table
SliderDisks ==
    {d \in DiskStates :
        /\ d.workbook = "access" /\ d.features = "full"
        /\ d.matrix = "full" /\ d.wide = "full"}

InitSlider ==
    /\ disk \in SliderDisks
    /\ cache = NoCache /\ execs = <<>> /\ ui = NoRun /\ changes = 0
    /\ df_main = EmptyDF /\ forecast_df = None /\ call = NoCall

SpecSlider == InitSlider /\ [][Slide]_vars

-----------------------------------------------------------------------------
(* Claims about the query functions (checked under SpecUtils) *)

SeriesIdx(obs, code) ==
    {i \in DOMAIN obs.rows :
        /\ obs.rows[i].indicator_code = code
        /\ obs.rows[i].observation_date # NA
        /\ obs.rows[i].value_numeric # NA}

\* C1: get_indicator_series does not raise and returns exactly the rows of
\* the observation table that carry the code and have both observation_date
\* and value_numeric, each once, in non-decreasing order of observation_date;
\* nothing at all for a code that no row carries or for an empty table.
C1_IndicatorSeries ==
    call.fn = "get_indicator_series" =>
        LET obs == call.arg
            want == SeriesIdx(obs, call.code)
            got == call.ret.val.rows
        IN  /\ ~ raised(call.ret)
            /\ Len(got) = Cardinality(want)
            /\ {got[k] : k \in DOMAIN got} = {obs.rows[i] : i \in want}
            /\ \A j, k \in DOMAIN got :
                  j < k => got[j].observation_date[2] <= got[k].observation_date[2]
            /\ (\A i \in DOMAIN obs.rows : obs.rows[i].indicator_code # call.code)
                  => got = <<>>

\* a series of two rows that stood in the other order in the table, next to a
\* row of the same code that was dropped for its missing value
C1_Witness ==
    /\ call.fn = "get_indicator_series"
    /\ ~ raised(call.ret)
    /\ Len(call.ret.val.rows) = 2
    /\ call.ret.val.rows[1].idx > call.ret.val.rows[2].idx
    /\ call.ret.val.rows[1].observation_date # call.ret.val.rows[2].observation_date
    /\ \E i \in DOMAIN call.arg.rows :
          /\ call.arg.rows[i].indicator_code = call.code
          /\ call.arg.rows[i].value_numeric = NA

\* C2: get_latest_value returns absent when the series of the code is empty
\* and otherwise the value_numeric of a row of the series whose
\* observation_date is the greatest of the series.
C2_LatestValue ==
    call.fn = "get_latest_value" =>
        LET obs == call.arg
            want == SeriesIdx(obs, call.code)
        IN  /\ ~ raised(call.ret)
            /\ want = {} => call.ret.val = NA
            /\ want # {} =>
                  \E i \in want :
                     /\ \A j \in want : obs.rows[j].observation_date[2]
                                           <= obs.rows[i].observation_date[2]
                     /\ call.ret.val = obs.rows[i].value_numeric

\* the latest row stands first in the table, an earlier row with another
\* value after it, and a row of the same code with the latest date of all has
\* no value
C2_Witness ==
    /\ call.fn = "get_latest_value"
    /\ call.ret.val # NA
    /\ LET obs == call.arg
           want == SeriesIdx(obs, call.code)
       IN  /\ \E i, j \in want :
                /\ i < j
                /\ obs.rows[i].observation_date[2] > obs.rows[j].observation_date[2]
                /\ obs.rows[i].value_numeric # obs.rows[j].value_numeric
                /\ call.ret.val = obs.rows[i].value_numeric
           /\ \E k \in DOMAIN obs.rows :
                /\ obs.rows[k].indicator_code = call.code
                /\ obs.rows[k].value_numeric = NA
                /\ obs.rows[k].observation_date # NA

Matching(fc, code, year, scenario) ==
    IF fc = None THEN {}
    ELSE {i \in DOMAIN fc[1].rows :
             /\ fc[1].rows[i].indicator_code = code
             /\ fc[1].rows[i].year = Num(year)
             /\ fc[1].rows[i].scenario = scenario}

\* C3: get_forecast_value never raises (also for an absent or empty table);
\* it returns the forecast_value of the matching row when exactly one row
\* matches the three keys and absent when no row matches them.
C3_ForecastValue ==
    call.fn = "get_forecast_value" =>
        LET m == Matching(call.arg, call.code, call.year, call.scenario)
        IN  /\ ~ raised(call.ret)
            /\ m = {} => call.ret.val = NA
            /\ \A i \in m : m = {i} => call.ret.val = call.arg[1].rows[i].forecast_value

\* exactly one matching row, standing after a row that differs from it in
\* the scenario only and carries another value
C3_Witness ==
    /\ call.fn = "get_forecast_value"
    /\ Matching(call.arg, call.code, call.year, call.scenario) = {2}
    /\ call.arg[1].rows[1].indicator_code = call.code
    /\ call.arg[1].rows[1].year = Num(call.year)
    /\ call.arg[1].rows[1].forecast_value # call.arg[1].rows[2].forecast_value
    /\ call.ret.val = call.arg[1].rows[2].forecast_value

OfType(df, t) == {i \in DOMAIN df.rows : df.rows[i].record_type = t}

Occurrences(res, i) ==
    Cardinality({k \in DOMAIN res.val.rows : res.val.rows[k].idx = i})

\* C4: get_observations and get_events partition the unified table by
\* record_type: an observation row is once in get_observations and not in
\* get_events, an event row once in get_events and not in get_observations,
\* a row of any other record_type in neither; the table handed to the two
\* functions is the same after the calls.
C4_Partition ==
    call.fn = "partition" =>
        /\ ~ raised(call.observations)
        /\ ~ raised(call.events)
        /\ \A i \in DOMAIN call.arg.rows :
              LET t == call.arg.rows[i].record_type
              IN  /\ Occurrences(call.observations, i)
                        = (IF t = "observation" THEN 1 ELSE 0)
                  /\ Occurrences(call.events, i) = (IF t = "event" THEN 1 ELSE 0)
        /\ Len(call.observations.val.rows) = Cardinality(OfType(call.arg, "observation"))
        /\ Len(call.events.val.rows) = Cardinality(OfType(call.arg, "event"))
        /\ \A k \in DOMAIN call.observations.val.rows :
              LET r == call.observations.val.rows[k]
              IN  \A c \in UnifiedCols : r[c] = call.arg.rows[r.idx][c]
        /\ df_main = call.arg

\* a table with one row of each of the three record types
C4_Witness ==
    /\ call.fn = "partition"
    /\ Len(call.arg.rows) = 3
    /\ {call.arg.rows[i].record_type : i \in 1..3}
          = {"observation", "event", "impact_link"}
    /\ Len(call.observations.val.rows) = 1
    /\ Len(call.events.val.rows) = 1

\* the event rows of the table handed to get_events have some event_date
AnyEventDate(df) ==
    \E i \in OfType(df, "event") : df.rows[i].event_date # NA

\* C9 as stated: for every record get_events returns, event_date_parsed is
\* derived from the record's own event_date when that is present and from the
\* record's own observation_date otherwise.
C9_PerRecordFallback ==
    call.fn = "partition" =>
        /\ ~ raised(call.events)
        /\ \A k \in DOMAIN call.events.val.rows :
              LET r == call.events.val.rows[k]
                  orig == call.arg.rows[r.idx]
              IN  r.event_date_parsed =
                     (IF orig.event_date # NA
                      THEN to_datetime(orig.event_date)
                      ELSE to_datetime(orig.observation_date))

\* C9 amended: get_events does not raise and picks one date column for the
\* whole table: event_date when at least one event record has an event_date,
\* observation_date otherwise.  event_date_parsed of every record is that
\* column's date; a record whose date in that column is missing or is not a
\* date gets a missing event_date_parsed, whatever its other date column holds.
C9_ColumnFallback ==
    call.fn = "partition" =>
        /\ ~ raised(call.events)
        /\ \A k \in DOMAIN call.events.val.rows :
              LET r == call.events.val.rows[k]
                  orig == call.arg.rows[r.idx]
                  src == IF AnyEventDate(call.arg)
                         THEN orig.event_date ELSE orig.observation_date
              IN  /\ "event_date_parsed" \in call.events.val.cols
                  /\ src = NA => r.event_date_parsed = NA
                  /\ src = Str("TBD") => r.event_date_parsed = NA
                  /\ src = Str("2022-06-30") => r.event_date_parsed = Ts(20220630)
                  /\ (src # NA /\ src[1] = "ts") => r.event_date_parsed = src

\* two event records: one dated by its event_date, the other without an
\* event_date but with an observation_date, which is left without a date
C9_Witness ==
    /\ call.fn = "partition"
    /\ \E j, k \in DOMAIN call.events.val.rows :
          /\ call.events.val.rows[j].event_date_parsed = Ts(20220630)
          /\ call.arg.rows[call.events.val.rows[k].idx].event_date = NA
          /\ call.arg.rows[call.events.val.rows[k].idx].observation_date # NA
          /\ call.events.val.rows[k].event_date_parsed = NA

-----------------------------------------------------------------------------
(* Claims about the loads and the pages (checked under Spec, C7 under      *)
(* SpecSession)                                                            *)

\* what a load function returns in place of its data
Placeholder(fn) ==
    CASE fn = "load_unified_data"   -> <<EmptyDF, EmptyDF>>
      [] fn = "load_event_features" -> None
      [] fn = "load_event_matrix"   -> None
      [] fn = "load_forecasts"      -> <<None, None>>

\* the files an execution looked for and found missing, and the reads it
\* tried that failed
MissingFor(e) ==
    LET d == Mount(e.saw)
    IN  CASE e.fn = "load_unified_data"   -> {f \in {"enriched"} : d[f].st = "missing"}
          [] e.fn = "load_event_features" -> {f \in {"features"} : d[f].st = "missing"}
          [] e.fn = "load_event_matrix"   -> {f \in {"matrix"} : d[f].st = "missing"}
          [] e.fn = "load_forecasts" ->
                {f \in {"long"} \cup (IF d.long.st = "ok" THEN {"wide"} ELSE {}) :
                    d[f].st = "missing"}

FailedReads(e) ==
    LET d == Mount(e.saw)
    IN  {f \in e.reads :
            IF f = "Impact_sheet"
            THEN d.workbook.st # "ok" \/ d.workbook.impact_st # "ok"
            ELSE d[f].st # "ok"}

\* C5 as stated: no load lets an exception escape, and whenever a file it
\* looks for is missing or a read it tries fails, the load reports a warning
\* or an error and returns its placeholder.
C5_PlaceholderOnAnyFailure ==
    \A i \in DOMAIN execs :
        LET e == execs[i]
        IN  /\ e.exc = ""
            /\ (MissingFor(e) # {} \/ FailedReads(e) # {}) =>
                  /\ e.report # <<>>
                  /\ e.ret = Placeholder(e.fn)

\* C5: no load lets an exception escape.  load_event_features and
\* load_event_matrix warn and return absent when their file is missing, show
\* an error and return absent when it cannot be read.  load_forecasts warns
\* when the long file is missing and shows an error when the long file, or a
\* wide file that exists, cannot be read, returning a pair of absents in each
\* case; a missing wide file is reported by nothing and leaves the long table
\* with an absent wide table.  load_unified_data shows an error and returns a
\* pair of empty tables when the enriched CSV exists and cannot be read, or
\* is missing while the main sheet of the workbook cannot be read; a missing
\* enriched CSV with a readable workbook, and an Impact_sheet that cannot be
\* read, are reported by nothing and give the tables of the workbook, the
\* impact table empty in the second case.
C5_FailSoft ==
    \A i \in DOMAIN execs :
        LET e == execs[i]
            d == Mount(e.saw)
            sole == IF e.fn = "load_event_features" THEN d.features ELSE d.matrix
        IN  /\ e.exc = ""
            /\ e.fn = "load_unified_data" =>
                  IF (exists(d.enriched) /\ d.enriched.st # "ok")
                        \/ (~ exists(d.enriched) /\ d.workbook.st # "ok")
                  THEN e.report = <<"error">> /\ e.ret = Placeholder(e.fn)
                  ELSE /\ e.report = <<>>
                       /\ ~ empty(e.ret[1])
                       /\ (~ exists(d.enriched) /\ d.workbook.impact_st # "ok")
                             => e.ret[2] = EmptyDF
            /\ e.fn \in {"load_event_features", "load_event_matrix"} =>
                  CASE sole.st = "missing" ->
                          e.report = <<"warning">> /\ e.ret = Placeholder(e.fn)
                    [] sole.st = "unreadable" ->
                          e.report = <<"error">> /\ e.ret = Placeholder(e.fn)
                    [] OTHER -> e.report = <<>> /\ e.ret # None
            /\ e.fn = "load_forecasts" =>
                  CASE d.long.st = "missing" ->
                          e.report = <<"warning">> /\ e.ret = Placeholder(e.fn)
                    [] d.long.st = "unreadable" \/ d.wide.st = "unreadable" ->
                          e.report = <<"error">> /\ e.ret = Placeholder(e.fn)
                    [] OTHER ->
                          /\ e.report = <<>>
                          /\ e.ret[1] # None
                          /\ e.ret[2] = None <=> d.wide.st = "missing"

\* the four loads of one run each ended in its placeholder: two for a missing
\* file (a warning), two for a file that could not be read (an error, the
\* forecasts for the wide file alone)
C5_Witness ==
    /\ Len(execs) = 4
    /\ \A i \in DOMAIN execs :
          execs[i].report # <<>> /\ execs[i].ret = Placeholder(execs[i].fn)
    /\ \E i \in DOMAIN execs :
          /\ execs[i].fn = "load_forecasts"
          /\ FailedReads(execs[i]) = {"wide"}
          /\ execs[i].report = <<"error">>
    /\ \E i \in DOMAIN execs :
          execs[i].fn = "load_event_matrix" /\ execs[i].report = <<"warning">>
    /\ ui.page # "none" /\ ui.exc = ""

\* the script reached its last statement
ReachedFooter(run) ==
    run.els # <<>> /\ run.els[Len(run.els)].kind = "footer"

\* C6 as stated: whatever files are present, missing or unreadable and
\* whichever page is selected, the run of the script raises nothing and
\* reaches the footer.
C6_NoFatalPath ==
    ui.page # "none" => ui.exc = "" /\ ReachedFooter(ui)

\* the executions of one load function in the log
ExecsOf(x, fn) == {i \in DOMAIN x : x[i].fn = fn}

\* a disk the loads could read nothing from
NothingOnDisk == [f \in DOMAIN Versions |-> "missing"]

\* C7: in every step of a session the body of each load function has run at
\* most once; once it has run, its stored result is the one of that run and
\* no later step replaces it or runs the body again, whatever has happened to
\* the files; and a run of the script shows what the stored results give,
\* whatever is on disk.
C7_Memoized ==
    [][/\ \A fn \in Loads :
             /\ Cardinality(ExecsOf(execs', fn)) <= 1
             /\ cache'[fn] # None =>
                   \E i \in ExecsOf(execs', fn) :
                      cache'[fn][1] = [ret |-> execs'[i].ret,
                                       report |-> execs'[i].report]
             /\ cache[fn] # None =>
                   cache'[fn] = cache[fn] /\ ExecsOf(execs', fn) = ExecsOf(execs, fn)
       /\ ui' # ui =>
             \E data \in {LoadData(cache', execs', NothingOnDisk)} :
             \E r \in Script(ui'.page, data, ui'.years, ui'.scenario, ui'.sel) :
                r.exc = ui'.exc /\ r.els = ui'.els]_vars

\* a run of the Forecasts page after the long forecast file was removed still
\* draws the base scenario the first run loaded
C7_Witness ==
    /\ changes = 1 /\ ui.at = 1
    /\ disk.long = "missing"
    /\ \E i \in DOMAIN execs :
          /\ execs[i].fn = "load_forecasts"
          /\ execs[i].saw.long = "full"
          /\ execs[i].saw # disk
    /\ ui.page = "Forecasts"
    /\ \E k \in DOMAIN ui.els : ui.els[k].kind = "trace" /\ ui.els[k].label = "Base"

\* the table read_csv / read_excel gives for the lines of a file, after the
\* date parsing of the load
Parsed(cols, rows) == parse_observation_date(WithIndex(cols, rows))

\* C8: when the enriched CSV exists, load_unified_data reads it and nothing
\* else, and, the file being readable, returns its rows as the main table
\* and exactly its rows of record_type impact_link as the impact table; the
\* workbook is read only when the enriched CSV does not exist, and then the
\* main table is its main sheet and the impact table its Impact_sheet, or an
\* empty table when that sheet cannot be read.
C8_EnrichedPreferred ==
    \A i \in ExecsOf(execs, "load_unified_data") :
        LET e == execs[i]
            d == Mount(e.saw)
            csv == WithIndex(d.enriched.cols, d.enriched.rows)
        IN  /\ exists(d.enriched) =>
                  /\ e.reads = {"enriched"}
                  /\ d.enriched.st = "ok" =>
                        /\ e.ret[1] = Parsed(d.enriched.cols, d.enriched.rows)
                        /\ e.ret[2].cols = csv.cols
                        /\ \A k \in DOMAIN e.ret[2].rows :
                              e.ret[2].rows[k].record_type = "impact_link"
                        /\ {e.ret[2].rows[k].idx : k \in DOMAIN e.ret[2].rows}
                              = {csv.rows[j].idx : j \in OfType(csv, "impact_link")}
                        /\ Len(e.ret[2].rows) = Cardinality(OfType(csv, "impact_link"))
            /\ e.reads \cap {"workbook", "Impact_sheet"} # {} => ~ exists(d.enriched)
            /\ (~ exists(d.enriched) /\ d.workbook.st = "ok") =>
                  /\ e.reads = {"workbook", "Impact_sheet"}
                  /\ e.ret[1] = Parsed(d.workbook.main.cols, d.workbook.main.rows)
                  /\ e.ret[2] = IF d.workbook.impact_st = "ok"
                                THEN WithIndex(d.workbook.impact.cols,
                                               d.workbook.impact.rows)
                                ELSE EmptyDF

\* both sources could be read: the tables are those of the enriched CSV, the
\* impact table its one impact_link row, and the workbook was left alone
C8_Witness ==
    \E i \in ExecsOf(execs, "load_unified_data") :
        /\ execs[i].saw.enriched = "full"
        /\ execs[i].saw.workbook = "access"
        /\ execs[i].reads = {"enriched"}
        /\ Len(execs[i].ret[1].rows) = Len(UnifiedFull)
        /\ Len(execs[i].ret[2].rows) = 1
        /\ ui.page = "Data Coverage" /\ ui.exc = ""

\* the forecast tables the last run of the script worked with
LoadedForecasts == cache["load_forecasts"][1].ret

HasTrace(run, names) ==
    \E k \in DOMAIN run.els : run.els[k].kind = "trace" /\ run.els[k].label \in names

\* the rows of the wide table for the indicator selected on the page
BandRows(forecast_wide, sel) ==
    {k \in DOMAIN forecast_wide[1].rows :
        forecast_wide[1].rows[k].indicator_code = sel[1]}

\* C10: load_forecasts never returns a wide table without a long table; the
\* Forecasts page draws the uncertainty band only when there is a wide table
\* with lower and upper columns and rows for the selected indicator; and with
\* a long table and no wide table the run raises nothing, draws no band and
\* draws a scenario line for each scenario the selected indicator has rows
\* of.
C10_WideOptional ==
    /\ \A i \in ExecsOf(execs, "load_forecasts") :
          execs[i].ret[1] = None => execs[i].ret[2] = None
    /\ ui.page = "Forecasts" =>
          LET forecast_long == LoadedForecasts[1]
              forecast_wide == LoadedForecasts[2]
          IN  /\ HasTrace(ui, {"Uncertainty Band", "Upper Bound"}) =>
                    /\ forecast_long # None /\ forecast_wide # None
                    /\ {"lower", "upper"} \subseteq forecast_wide[1].cols
                    /\ ui.sel # <<>>
                    /\ BandRows(forecast_wide, ui.sel) # {}
              /\ (forecast_long # None /\ forecast_wide = None) =>
                    /\ ui.exc = "" /\ ReachedFooter(ui)
                    /\ ~ HasTrace(ui, {"Uncertainty Band", "Upper Bound"})
                    /\ \A sc \in Scenarios :
                          (\E k \in DOMAIN forecast_long[1].rows :
                              /\ ui.sel # <<>>
                              /\ forecast_long[1].rows[k].indicator_code = ui.sel[1]
                              /\ forecast_long[1].rows[k].scenario = sc)
                          <=> HasTrace(ui, {CASE sc = "base" -> "Base"
                                              [] sc = "optimistic" -> "Optimistic"
                                              [] sc = "pessimistic" -> "Pessimistic"})

\* the long table with the two base rows of X and no wide file: the page
\* draws the base line of X, no band, and reaches the footer
C10_Witness ==
    /\ ui.page = "Forecasts" /\ ui.sel = <<"X">>
    /\ cache["load_forecasts"] # None
    /\ LoadedForecasts[1] # None /\ LoadedForecasts[2] = None
    /\ Len(LoadedForecasts[1][1].rows) = 2
    /\ HasTrace(ui, {"Base"})
    /\ ~ HasTrace(ui, {"Uncertainty Band", "Upper Bound"})
    /\ ui.exc = "" /\ ReachedFooter(ui)

HasEl(run, kind, label) ==
    \E k \in DOMAIN run.els : run.els[k].kind = kind /\ run.els[k].label = label

\* the event matrix the last run of the script worked with
LoadedMatrix == cache["load_event_matrix"][1].ret

\* C11: load_event_matrix returns absent when event_indicator_matrix.csv is
\* missing; the Events & Impact page raises nothing, draws the heatmap
\* exactly when load_event_matrix returned a table, and shows the
\* informational placeholder exactly when it returned absent.
C11_MatrixPlaceholder ==
    /\ \A i \in ExecsOf(execs, "load_event_matrix") :
          execs[i].saw.matrix = "missing" =>
             execs[i].ret = None /\ execs[i].report = <<"warning">>
    /\ ui.page = "Events & Impact" =>
          /\ ui.exc = "" /\ ReachedFooter(ui)
          /\ HasEl(ui, "chart", "Event Impact Weights by Indicator")
                <=> LoadedMatrix # None
          /\ HasEl(ui, "info", "Event matrix not available")
                <=> LoadedMatrix = None

\* the matrix file is missing while the events are there: the page draws the
\* timeline, then the placeholder, and no heatmap
C11_Witness ==
    /\ ui.page = "Events & Impact"
    /\ disk.matrix = "missing"
    /\ HasEl(ui, "trace", "Event Timeline")
    /\ HasEl(ui, "info", "Event matrix not available")
    /\ ~ HasEl(ui, "chart", "Event Impact Weights by Indicator")
    /\ ReachedFooter(ui)

\* a run without the scenario selectbox itself and without the forecast trace
\* of the Overview chart
WithoutScenario(page, run) ==
    [exc |-> run.exc,
     els |-> SelectSeq(run.els,
                LAMBDA el :
                   /\ ~ (el.kind = "selectbox" /\ el.label = "Forecast Scenario")
                   /\ ~ (page = "Overview" /\ el.kind = "trace"
                            /\ el.label = "Forecast"))]

LoadedObservations == get_observations(cache["load_unified_data"][1].ret[1]).val

\* the metric card with one of the labels shows N/A for an absent value v and
\* the number v otherwise
MetricShows(labels, v) ==
    \E k \in DOMAIN ui.els :
       /\ ui.els[k].kind = "metric" /\ ui.els[k].label \in labels
       /\ IF v = NA THEN ui.els[k].data = <<"N/A">>
          ELSE /\ ui.els[k].data # <<"N/A">>
               /\ Pct(v) \in {ui.els[k].data, ui.els[k].data[1]}

\* C13 as stated: on the Overview page each of the four metric cards shows
\* N/A exactly when its lookup returned absent, and shows the number for
\* every present value, 0 included.
C13_NAOnlyWhenAbsent ==
    (ui.page = "Overview" /\ ui.exc = "") =>
        /\ \E v \in get_latest_value(LoadedObservations, "ACC_OWNERSHIP") :
              MetricShows({"Latest Account Ownership"}, v.val)
        /\ \E v \in get_latest_value(LoadedObservations, "ACC_MM_ACCOUNT") :
              MetricShows({"Mobile Money Accounts"}, v.val)
        /\ \E v \in get_latest_value(LoadedObservations, "USG_DIGITAL_PAYMENT") :
              MetricShows({"Digital Payment Usage"}, v.val)
        /\ MetricShows({"2027 Forecast (Access)", "2027 Forecast"},
                       get_forecast_value(LoadedForecasts[1], "ACC_OWNERSHIP", 2027,
                                          "base").val)

\* C14 as stated: on the Trends page the default of the indicator
\* multiselect has at most two codes, all of them among the indicator codes
\* of the observation table, whatever the table.
C14_DefaultWithinOptions ==
    ui.page = "Trends" =>
        LET available == available_indicators(LoadedObservations)
            default == default_indicators(available)
        IN  /\ Len(default) <= 2
            /\ Range(default) \subseteq Range(available)

\* a run without the year slider itself
WithoutSlider(run) ==
    [exc |-> run.exc,
     els |-> SelectSeq(run.els,
                LAMBDA el : ~ (el.kind = "slider" /\ el.label = "Year Range"))]

\* C15: whatever the last run of the script drew, the same page on the same
\* data, with the same scenario and selection, can draw the same with every
\* value of the year slider, the slider itself left aside.
C15_YearRangeNotApplied ==
    ui.page # "none" =>
        \E data \in {LoadData(cache, execs, disk)} :
        \A year_range \in YearRanges(data.observations) :
        \E r \in Script(ui.page, data, year_range, ui.scenario, ui.sel) :
           WithoutSlider(r) = WithoutSlider(ui)

\* the slider set to the last year of the observations only, and the Trends
\* page still draws an observation of an earlier year
C15_Witness ==
    /\ ui.page = "Trends" /\ ui.exc = ""
    /\ ui.years # DefaultYears(LoadedObservations)
    /\ ui.years[1] = Max(ObservationYears(LoadedObservations))
    /\ \E k \in DOMAIN ui.els :
          /\ ui.els[k].kind = "slider" /\ ui.els[k].data[3] = ui.years
    /\ \E k \in DOMAIN ui.els :
          /\ ui.els[k].kind = "trace"
          /\ \E j \in DOMAIN ui.els[k].data :
                dt_year(ui.els[k].data[j][1])[1] < ui.years[1]

====
